---- MODULE Spec2Model ----
(***************************************************************************)
(* Fill-cycle controller (src/src/implementation/fill_controller/          *)
(* controller.py).  One paho network thread calls on_message for one bus   *)
(* message at a time; the handlers block that thread in time.sleep, and    *)
(* messages that reach the client meanwhile wait until the handler         *)
(* returns.  Time is in milliseconds, positions in 1/100 mm, levels in ml. *)
(***************************************************************************)
EXTENDS Integers, Sequences, FiniteSets, TLC

VARIABLES
    state,             \* self.state (SystemState)
    current_can_id,    \* self.current_can_id
    position_mm,       \* self.position_mm
    current_level,     \* self.current_level
    cycle_start_time,  \* self.cycle_start_time
    fill_start_time,   \* self.fill_start_time
    db_conn,           \* self.db_conn is not None
    pc,                \* where the network thread is: ready, or blocked in a sleep
    now,               \* time.time()
    commands,          \* what the thread's last step published on valve/command
    logged,            \* the records the thread's last step passed to log_event
    rows,              \* what the thread's last step committed to filling_events
    inbox,             \* the messages received while the thread was blocked: topic, state at arrival
    cans,              \* number of messages received on sensor/can_detected
    ticks,             \* number of times the clock has been advanced
    msg,               \* the message last passed to on_message, until the clock moves on
    config,            \* self.target_level, tolerance, position_timeout, max_fill_time
    last_command,      \* action of the last command published on valve/command
    artifact,          \* the FillController of artifacts/.../fill-controller/main.py
    sensor             \* the SensorSimulator of sensor_simulator/sensor_sim.py and the bus

ctrl == <<state, current_can_id, position_mm, current_level,
          cycle_start_time, fill_start_time>>
vars == <<state, current_can_id, position_mm, current_level, cycle_start_time,
          fill_start_time, db_conn, pc, now, commands, logged, rows, inbox, cans, ticks, msg,
          config, last_command, artifact, sensor>>

-----------------------------------------------------------------------------
(* Bounds of the model *)
MaxCans == 2
MaxInbox == 1
MaxTicks == 2

(* Python's None for a number-valued field; "none" for a string-valued one *)
None == -1000000
NoStr == "none"

(* SystemState *)
IDLE == "idle"
WAITING_POSITION == "waiting_position"
FILLING == "filling"
CLOSING_VALVE == "closing_valve"
COMPLETE == "complete"
FAULT == "fault"

(* Configuration set by __init__ *)
target_level == 330
tolerance == 5
position_timeout == 200
max_fill_time == 3000

(* time.sleep arguments, in ms *)
close_delay == 30
settle_delay == 500
recovery_delay == 2000

(* Topics subscribed in on_connect *)
T_CAN == "sensor/can_detected"
T_POS == "sensor/position"
T_LEVEL == "sensor/level"

Topics == {T_CAN, T_POS, T_LEVEL}

CanIds == {1, 2}
Positions == {-350, 50}
Levels == {100, 324, 325, 335, 336}
TickSteps == {200, 3000}

(* A bus message: ok is whether json.loads succeeds on the payload; a field *)
(* the payload lacks (or carries as null) is None, as data.get returns it.  *)
(* The bus delivers payloads of the declared field types and payloads that  *)
(* do not decode.                                                           *)
Message(t, ok, c, p, v, l) ==
    [topic |-> t, ok |-> ok, can_id |-> c, position_mm |-> p, valid |-> v, level_ml |-> l,
     target |-> None, tolerance |-> None]

(* level_ml, target and tolerance of the level payloads: the simulator sends *)
(* target 330 and tolerance 5; one payload claims a target and a tolerance    *)
(* that its level would meet.                                                 *)
LevelPayloads == {<<l, 330, 5>> : l \in Levels} \cup {<<324, 300, 50>>}

NoMsg == Message(NoStr, FALSE, None, None, FALSE, None)

Messages ==
    {Message(T_CAN, TRUE, c, None, FALSE, None) : c \in CanIds}
    \cup {Message(T_POS, TRUE, c, p, v, None) :
            c \in CanIds, p \in Positions, v \in BOOLEAN}
    \cup {[Message(T_LEVEL, TRUE, c, None, FALSE, lp[1])
              EXCEPT !.target = lp[2], !.tolerance = lp[3]] :
            c \in CanIds, lp \in LevelPayloads}
    \cup {Message(t, FALSE, None, None, FALSE, None) : t \in Topics}

(* Payloads that decode but lack a field or carry null for it: data.get *)
(* returns None for can_id, position_mm and level_ml, False for valid.  *)
UntypedMessages ==
    {Message(T_CAN, TRUE, None, None, FALSE, None)}
    \cup {Message(T_POS, TRUE, c, None, v, None) : c \in CanIds, v \in BOOLEAN}
    \cup {Message(T_LEVEL, TRUE, c, None, FALSE, None) : c \in CanIds}

AnyMessages == Messages \cup UntypedMessages

(* Outcome of one log_event call.  On an open connection the insert commits, *)
(* or it raises and the rollback succeeds, or the rollback raises as well.   *)
DbResults ==
    IF db_conn THEN {"ok", "error", "rollback_error"} ELSE {"no_connection"}

-----------------------------------------------------------------------------
(* The controller variant of artifacts/code/implementation/fill-controller/  *)
(* main.py.  It is a program of its own, run instead of controller.py: its   *)
(* fields, its clock, what its last step published and logged and the        *)
(* message it last handled are the fields of the one variable artifact.      *)

FillState ==
    [IDLE |-> "IDLE", WAITING_POSITION |-> "WAITING_POSITION", FILLING |-> "FILLING",
     CLOSING_VALVE |-> "CLOSING_VALVE", COMPLETE |-> "COMPLETE", TIMEOUT |-> "TIMEOUT"]

TARGET_VOLUME == 330
VOLUME_TOLERANCE == 5
FILL_TIMEOUT == 3000

(* time.sleep(0.05) of close_valve, in ms *)
valve_delay == 50

(* Topics subscribed in on_connect of the variant *)
A_POSITION == "sensor/position"
A_CONFIRMED == "sensor/position_confirmed"
A_FILL_LEVEL == "sensor/fill_level"
A_PRESSURE == "sensor/pressure"
A_QUALITY == "status/quality"

Volumes == {100, 325, 336}
VariantTickSteps == {3000}

ArtifactMessage(t, c, v, vol, seal, result) ==
    [topic |-> t, can_id |-> c, valid |-> v, volume_ml |-> vol,
     seal_integrity |-> seal, result |-> result]

ArtifactMessages ==
    {ArtifactMessage(A_POSITION, None, v, None, FALSE, NoStr) : v \in BOOLEAN}
    \cup {ArtifactMessage(A_CONFIRMED, c, FALSE, None, FALSE, NoStr) : c \in CanIds}
    \cup {ArtifactMessage(A_FILL_LEVEL, None, FALSE, vol, FALSE, NoStr) : vol \in Volumes}
    \cup {ArtifactMessage(A_PRESSURE, None, FALSE, None, seal, NoStr) : seal \in BOOLEAN}
    \cup {ArtifactMessage(A_QUALITY, c, FALSE, None, FALSE, r) :
            c \in CanIds, r \in {"PASS", "FAIL"}}

(* The variant after __init__, with connect_db having succeeded or not *)
ArtifactStart(connected) ==
    [state |-> FillState.IDLE, current_can_id |-> None, fill_level |-> 0,
     cycle_start_time |-> None, position_valid |-> FALSE, seal_complete |-> FALSE,
     db_conn |-> connected, pc |-> "ready", now |-> 0, published |-> <<>>,
     logged |-> <<>>, msg |-> ArtifactMessage(NoStr, None, FALSE, None, FALSE, NoStr),
     cans |-> 0, ticks |-> 0]

-----------------------------------------------------------------------------
(* The sensor simulator (src/src/implementation/sensor_simulator/            *)
(* sensor_sim.py), the other end of the bus.  Its main thread runs the loop  *)
(* of run, its paho network thread runs on_message; both use the fields of   *)
(* the one SensorSimulator.  The variable sensor holds these fields, where   *)
(* each thread is, and the two directions of the bus: what the simulator     *)
(* has published and the controller has not yet been given, and the valve    *)
(* commands the simulator's network thread has not yet been given.           *)

(* Level at which simulate_filling stops by itself *)
full_level == 340

(* abs(self.position_mm) <= 2.0, in 1/100 mm *)
position_limit == 200

(* random.gauss(1.5, 0.2) is any amount; the rates drawn make the levels     *)
(* cross 325, 335 and 340 within a few reports.                              *)
FillRates == {100, 225}

SensorStart ==
    [can_detected |-> FALSE, filling_active |-> FALSE, current_level |-> 0,
     position_mm |-> 0, can_counter |-> 0, pc |-> "loop", bus_pc |-> "idle",
     to_controller |-> <<>>, to_sensor |-> <<>>]

-----------------------------------------------------------------------------
Init ==
    /\ state = IDLE
    /\ current_can_id = None
    /\ position_mm = None
    /\ current_level = 0
    /\ cycle_start_time = None
    /\ fill_start_time = None
    /\ db_conn \in BOOLEAN
    /\ pc = "ready"
    /\ now = 0
    /\ commands = <<>>
    /\ logged = <<>>
    /\ rows = <<>>
    /\ inbox = <<>>
    /\ cans = 0
    /\ ticks = 0
    /\ msg = NoMsg
    /\ config = [target_level |-> target_level, tolerance |-> tolerance,
                 position_timeout |-> position_timeout,
                 max_fill_time |-> max_fill_time]
    /\ last_command = NoStr
    /\ artifact = ArtifactStart(FALSE)
    /\ sensor = SensorStart

-----------------------------------------------------------------------------
(* A row of filling_events, in the column order of the INSERT of log_event *)
Row(event_type, can_id, pos, fill_level, cycle_time_ms, fill_duration_ms,
    valve_state, sensor_status, fault_code, fault_description, system_state) ==
    [event_type |-> event_type, can_id |-> can_id, position_mm |-> pos,
     fill_level_ml |-> fill_level, cycle_time_ms |-> cycle_time_ms,
     fill_duration_ms |-> fill_duration_ms, valve_state |-> valve_state,
     sensor_status |-> sensor_status, fault_code |-> fault_code,
     fault_description |-> fault_description, system_state |-> system_state]

(* The formatted fault description: its text and the number formatted into it *)
Description(text, value) == <<text, value>>
NoDescription == <<NoStr, None>>

(* log_event(row) called where the handler goes on at pc value `after`.    *)
(* Without a connection it returns at once; an exception of the insert or  *)
(* the commit is caught and rolled back; an exception of that rollback     *)
(* leaves log_event and the handler, and on_message swallows it.           *)
log_event_Dropped(row, after) ==
    /\ logged' = <<>>
    /\ rows' = <<>>
    /\ pc' = after
log_event(row, after) ==
    /\ logged' = <<row>>
    /\ \E res \in DbResults :
          /\ rows' = IF res = "ok" THEN <<row>> ELSE <<>>
          /\ pc' = IF res = "rollback_error" THEN "ready" ELSE after

(* f"{x:.2f}" raises TypeError when x is None *)
format_raises(x) == x = None

(* valve/command payloads *)
OpenCommand(can_id) ==
    [action |-> "open", can_id |-> can_id, reason |-> NoStr, final_level |-> None]
CloseCommand_Open(can_id, final_level) ==
    [action |-> "open", can_id |-> can_id, reason |-> NoStr, final_level |-> final_level]
CloseCommand(can_id, final_level) ==
    [action |-> "close", can_id |-> can_id, reason |-> NoStr, final_level |-> final_level]
FaultCommand_NoReason(can_id) ==
    [action |-> "close", can_id |-> can_id, reason |-> NoStr, final_level |-> None]
FaultCommand(can_id) ==
    [action |-> "close", can_id |-> can_id, reason |-> "fault", final_level |-> None]

(* enter_fault_state up to its time.sleep(2); position_mm' and current_level' *)
(* are the fields as the calling handler left them.                          *)
enter_fault_state(fault_code, description) ==
    /\ state' = FAULT
    /\ commands' = <<FaultCommand(current_can_id)>>
    /\ log_event(Row("fault_detected", current_can_id, position_mm', current_level',
                     None, None, "emergency_close", NoStr, fault_code, description,
                     FAULT), "sleep_fault")

reset_for_next_can ==
    /\ state' = IDLE
    /\ current_can_id' = None
    /\ position_mm' = None
    /\ current_level' = 0
    /\ cycle_start_time' = None
    /\ fill_start_time' = None

(* A step of the thread that publishes nothing and commits nothing *)
no_output == commands' = <<>> /\ logged' = <<>> /\ rows' = <<>>

(* The guard of handle_can_detected *)
can_accepted_WhileWaiting == state \in {IDLE, WAITING_POSITION}
can_accepted_WhileFilling == state \in {IDLE, FILLING}
can_accepted_Always == TRUE
can_accepted == state = IDLE

handle_can_detected(data) ==
    IF can_accepted
    THEN /\ current_can_id' = data.can_id
         /\ cycle_start_time' = now
         /\ state' = WAITING_POSITION
         /\ commands' = <<>>
         /\ log_event(Row("can_detected", data.can_id, position_mm, current_level,
                          None, None, NoStr, NoStr, NoStr, NoDescription,
                          WAITING_POSITION), "ready")
         /\ UNCHANGED <<position_mm, current_level, fill_start_time>>
    ELSE no_output /\ UNCHANGED <<ctrl, pc>>

(* The guards of handle_position_data and handle_level_data *)
position_expected_WhileFilling == state \in {WAITING_POSITION, FILLING}
position_expected_InIdle == state \in {IDLE, WAITING_POSITION}
position_expected_NotIdle == state # IDLE
position_expected == state = WAITING_POSITION
level_expected_WhileWaiting == state \in {WAITING_POSITION, FILLING}
level_expected == state = FILLING

position_timed_out_Never(elapsed) == FALSE
fill_timed_out_SinceCycle(elapsed) == now - cycle_start_time > config.max_fill_time
position_timed_out(elapsed) == elapsed > config.position_timeout
fill_timed_out(elapsed) == elapsed > config.max_fill_time

handle_position_data(data) ==
    IF position_expected
    THEN LET elapsed == now - cycle_start_time IN
         /\ position_mm' = data.position_mm
         /\ UNCHANGED <<current_can_id, current_level, cycle_start_time>>
         /\ IF position_timed_out(elapsed)
            THEN /\ enter_fault_state("position_timeout",
                                      Description("Position detection timeout", elapsed))
                 /\ UNCHANGED fill_start_time
            ELSE IF ~data.valid
            THEN IF format_raises(data.position_mm)
                 THEN no_output /\ UNCHANGED <<state, fill_start_time, pc>>
                 ELSE /\ enter_fault_state("invalid_position",
                                           Description("Position out of tolerance",
                                                       data.position_mm))
                      /\ UNCHANGED fill_start_time
            ELSE /\ state' = FILLING
                 /\ fill_start_time' = now
                 /\ IF format_raises(data.position_mm)
                    THEN no_output /\ pc' = "ready"
                    ELSE /\ commands' = <<OpenCommand(current_can_id)>>
                         /\ log_event(Row("fill_start", current_can_id,
                                          data.position_mm, current_level, None, None,
                                          "opening", NoStr, NoStr, NoDescription,
                                          FILLING), "ready")
    ELSE no_output /\ UNCHANGED <<ctrl, pc>>

(* self.current_level >= self.target_level - self.tolerance *)
target_reached_ByPayload(data) == data.level_ml >= data.target - data.tolerance
target_reached_Always(data) == TRUE
target_reached(data) == data.level_ml >= config.target_level - config.tolerance

(* handle_level_data up to its time.sleep(0.03); comparing None with a number *)
(* raises TypeError.                                                         *)
handle_level_data(data) ==
    IF level_expected
    THEN LET elapsed == now - fill_start_time IN
         /\ current_level' = data.level_ml
         /\ UNCHANGED <<current_can_id, position_mm, cycle_start_time, fill_start_time>>
         /\ IF fill_timed_out(elapsed)
            THEN enter_fault_state("fill_timeout", Description("Fill timeout", elapsed))
            ELSE IF data.level_ml = None
            THEN no_output /\ UNCHANGED <<state, pc>>
            ELSE IF target_reached(data)
            THEN /\ state' = CLOSING_VALVE
                 /\ commands' = <<CloseCommand(current_can_id, data.level_ml)>>
                 /\ logged' = <<>>
                 /\ rows' = <<>>
                 /\ pc' = "sleep_closing"
            ELSE no_output /\ UNCHANGED <<state, pc>>
    ELSE no_output /\ UNCHANGED <<ctrl, pc>>

within_tolerance_Strict(level) ==
    target_level - tolerance <= level /\ level < target_level + tolerance
within_tolerance(level) ==
    /\ config.target_level - config.tolerance <= level
    /\ level <= config.target_level + config.tolerance

(* verify_completion up to its time.sleep(0.5); it runs at time t *)
verify_completion(t) ==
    IF state = CLOSING_VALVE
    THEN /\ UNCHANGED <<current_can_id, position_mm, current_level,
                        cycle_start_time, fill_start_time>>
         /\ IF within_tolerance(current_level)
            THEN /\ state' = COMPLETE
                 /\ commands' = <<>>
                 /\ log_event(Row("fill_complete", current_can_id, position_mm,
                                  current_level, t - cycle_start_time,
                                  t - fill_start_time, "closed", "normal", NoStr,
                                  NoDescription, COMPLETE), "sleep_complete")
            ELSE enter_fault_state("out_of_tolerance",
                                   Description("Final level outside tolerance",
                                               current_level))
    ELSE no_output /\ UNCHANGED ctrl /\ pc' = "ready"

(* json.loads(msg.payload.decode()) returns *)
decodes_Always(m) == TRUE
decodes(m) == m.ok

(* client.publish on valve/command: the valve keeps the last action sent *)
published ==
    last_command' = IF commands' = <<>> THEN last_command
                    ELSE commands'[Len(commands')].action

(* on_message: decode, dispatch on the topic, swallow every exception *)
on_message(m) ==
    /\ msg' = m
    /\ UNCHANGED config
    /\ IF ~decodes(m) THEN no_output /\ UNCHANGED <<ctrl, pc>>
       ELSE IF m.topic = T_CAN THEN handle_can_detected(m)
       ELSE IF m.topic = T_POS THEN handle_position_data(m)
       ELSE IF m.topic = T_LEVEL THEN handle_level_data(m)
       ELSE no_output /\ UNCHANGED <<ctrl, pc>>
    /\ published

-----------------------------------------------------------------------------
(* The line feeds at most MaxCans cans: every message on sensor/can_detected *)
(* counts as one.                                                            *)
Counted(topic) ==
    IF topic = T_CAN
    THEN cans < MaxCans /\ cans' = cans + 1
    ELSE cans' = cans

(* loop_start runs one network thread, the only caller of on_message: it *)
(* takes the next message when the handler of the last one has returned. *)
thread_idle_Always == TRUE
thread_idle == pc = "ready"

(* A message reaches the idle network thread, which dispatches it at once *)
Receive(m) ==
    /\ thread_idle
    /\ inbox = <<>>
    /\ Counted(m.topic)
    /\ on_message(m)
    /\ UNCHANGED <<db_conn, now, inbox, ticks, artifact, sensor>>

(* A message reaches the client while the network thread sleeps in a handler. *)
(* Nothing reads its payload before on_message does, so the queue keeps the   *)
(* topic, with the state the controller was in at the arrival, and Drain      *)
(* draws the payload.                                                         *)
Enqueue(topic) ==
    /\ pc # "ready"
    /\ Len(inbox) < MaxInbox
    /\ inbox' = Append(inbox, [topic |-> topic, arrived_in |-> state])
    /\ Counted(topic)
    /\ UNCHANGED <<ctrl, db_conn, pc, now, commands, logged, rows, ticks, msg,
                   config, last_command, artifact, sensor>>

(* The handler has returned: the thread dispatches the oldest waiting message *)
Drain(m) ==
    /\ thread_idle
    /\ inbox # <<>>
    /\ m.topic = Head(inbox).topic
    /\ on_message(m)
    /\ inbox' = Tail(inbox)
    /\ UNCHANGED <<db_conn, now, cans, ticks, artifact, sensor>>

(* handle_level_data returns from time.sleep(0.03) and calls verify_completion *)
WakeClosing ==
    /\ pc = "sleep_closing"
    /\ now' = now + close_delay
    /\ verify_completion(now')
    /\ published
    /\ UNCHANGED <<db_conn, inbox, cans, ticks, msg, config, artifact, sensor>>

(* verify_completion returns from time.sleep(0.5) and resets *)
WakeComplete ==
    /\ pc = "sleep_complete"
    /\ now' = now + settle_delay
    /\ reset_for_next_can
    /\ no_output
    /\ pc' = "ready"
    /\ UNCHANGED <<db_conn, inbox, cans, ticks, msg, config, last_command, artifact, sensor>>

(* enter_fault_state returns from time.sleep(2) and resets *)
WakeFault ==
    /\ pc = "sleep_fault"
    /\ now' = now + recovery_delay
    /\ reset_for_next_can
    /\ no_output
    /\ pc' = "ready"
    /\ UNCHANGED <<db_conn, inbox, cans, ticks, msg, config, last_command, artifact, sensor>>

(* Time passes while the network thread waits for a message.  The handlers *)
(* read the clock only as the time since a stamp of the running cycle, so  *)
(* only the time that passes in a state with a deadline is followed.       *)
Tick(d) ==
    /\ pc = "ready"
    /\ inbox = <<>>
    /\ state \in {WAITING_POSITION, FILLING}
    /\ ticks < MaxTicks
    /\ ticks' = ticks + 1
    /\ now' = now + d
    /\ msg' = NoMsg
    /\ UNCHANGED <<ctrl, db_conn, pc, commands, logged, rows, inbox, cans,
                   config, last_command, artifact, sensor>>

Next ==
    \/ \E m \in Messages : Receive(m)
    \/ \E topic \in Topics : Enqueue(topic)
    \/ \E m \in Messages : Drain(m)
    \/ WakeClosing
    \/ WakeComplete
    \/ WakeFault
    \/ \E d \in TickSteps : Tick(d)

Spec == Init /\ [][Next]_vars

(* The same controller on a bus that also delivers payloads with missing *)
(* or null fields                                                        *)
NextAnyPayload ==
    \/ \E m \in AnyMessages : Receive(m)
    \/ \E topic \in Topics : Enqueue(topic)
    \/ \E m \in AnyMessages : Drain(m)
    \/ WakeClosing
    \/ WakeComplete
    \/ WakeFault
    \/ \E d \in TickSteps : Tick(d)

SpecAnyPayload == Init /\ [][NextAnyPayload]_vars

-----------------------------------------------------------------------------
(* The handlers of the variant *)
reset(a) ==
    [a EXCEPT !.state = FillState.IDLE, !.current_can_id = None, !.fill_level = 0,
              !.cycle_start_time = None, !.position_valid = FALSE,
              !.seal_complete = FALSE]

(* log_production: returns at once without a connection or a can id; every *)
(* exception of the insert is caught                                       *)
log_production(a, quality, reject_reason) ==
    IF ~a.db_conn \/ a.current_can_id = None
    THEN a
    ELSE [a EXCEPT !.logged = Append(@, [can_id |-> a.current_can_id,
                                          fill_level_ml |-> a.fill_level,
                                          quality_result |-> quality,
                                          reject_reason |-> reject_reason])]

handle_position(a, data) ==
    IF a.state = FillState.IDLE /\ data.valid
    THEN [a EXCEPT !.state = FillState.WAITING_POSITION, !.cycle_start_time = a.now]
    ELSE a

start_filling(a) ==
    IF a.state = FillState.WAITING_POSITION /\ a.position_valid
    THEN [a EXCEPT !.state = FillState.FILLING,
                   !.fill_level = 0,
                   !.published = Append(@, [topic |-> "control/valve/command",
                                            action |-> "OPEN",
                                            can_id |-> a.current_can_id,
                                            emergency |-> FALSE])]
    ELSE a

handle_position_confirmed(a, data) ==
    IF a.state = FillState.WAITING_POSITION
    THEN start_filling([a EXCEPT !.current_can_id = data.can_id,
                                 !.position_valid = TRUE])
    ELSE a

handle_timeout(a) ==
    reset(log_production(
        [a EXCEPT !.state = FillState.TIMEOUT,
                  !.published = Append(@, [topic |-> "control/valve/command",
                                           action |-> "CLOSE",
                                           can_id |-> None,
                                           emergency |-> TRUE])],
        "FAIL", "TIMEOUT"))

(* The timeout test that ends handle_fill_level *)
check_timeout(a) ==
    IF a.cycle_start_time # None /\ a.now - a.cycle_start_time > FILL_TIMEOUT
    THEN handle_timeout(a)
    ELSE a

(* close_valve up to its time.sleep(0.05) *)
close_valve(a) ==
    IF a.state = FillState.FILLING
    THEN [a EXCEPT !.state = FillState.CLOSING_VALVE,
                   !.published = Append(@, [topic |-> "control/valve/command",
                                            action |-> "CLOSE",
                                            can_id |-> a.current_can_id,
                                            emergency |-> FALSE]),
                   !.pc = "sleep_valve"]
    ELSE a

(* close_valve after its sleep, and the rest of handle_fill_level *)
close_valve_done(a) ==
    check_timeout([a EXCEPT !.state = FillState.COMPLETE,
                            !.published = <<[topic |-> "status/fill_complete",
                                             action |-> NoStr,
                                             can_id |-> a.current_can_id,
                                             emergency |-> FALSE]>>,
                            !.logged = <<>>,
                            !.now = a.now + valve_delay,
                            !.pc = "ready"])

handle_fill_level(a, data) ==
    IF a.state = FillState.FILLING
    THEN LET b == [a EXCEPT !.fill_level = data.volume_ml] IN
         IF b.fill_level >= TARGET_VOLUME - VOLUME_TOLERANCE
         THEN close_valve(b)
         ELSE check_timeout(b)
    ELSE a

(* handle_pressure only prints *)
handle_pressure_Gates(a, data) ==
    IF a.state = FillState.COMPLETE /\ ~data.seal_integrity THEN reset(a) ELSE a
handle_pressure(a, data) ==
    IF a.state = FillState.COMPLETE THEN a ELSE a

handle_quality_result(a, data) ==
    IF a.state = FillState.COMPLETE
    THEN reset(IF data.result = "PASS"
               THEN log_production(a, "PASS", NoStr)
               ELSE log_production(a, "FAIL", "QUALITY_CHECK"))
    ELSE a

(* on_message of the variant, on a payload that decodes *)
artifact_on_message(a, m) ==
    LET b == [a EXCEPT !.msg = m, !.published = <<>>, !.logged = <<>>] IN
    IF m.topic = A_POSITION THEN handle_position(b, m)
    ELSE IF m.topic = A_CONFIRMED THEN handle_position_confirmed(b, m)
    ELSE IF m.topic = A_FILL_LEVEL THEN handle_fill_level(b, m)
    ELSE IF m.topic = A_PRESSURE THEN handle_pressure(b, m)
    ELSE IF m.topic = A_QUALITY THEN handle_quality_result(b, m)
    ELSE b

(* The variables of controller.py and of its sensor simulator, which do not run *)
controller_vars ==
    <<state, current_can_id, position_mm, current_level, cycle_start_time,
      fill_start_time, db_conn, pc, now, commands, logged, rows, inbox, cans, ticks,
      msg, config, last_command, sensor>>

(* loop_forever dispatches one message; the line feeds at most MaxCans cans *)
ArtifactReceive(m) ==
    /\ artifact.pc = "ready"
    /\ m.topic = A_POSITION => artifact.cans < MaxCans
    /\ artifact' = [artifact_on_message(artifact, m) EXCEPT
                      !.cans = IF m.topic = A_POSITION THEN @ + 1 ELSE @]
    /\ UNCHANGED controller_vars

(* close_valve returns from time.sleep(0.05) *)
ArtifactWakeValve ==
    /\ artifact.pc = "sleep_valve"
    /\ artifact' = close_valve_done(artifact)
    /\ UNCHANGED controller_vars

(* Time passes while the variant waits for a message during a cycle *)
ArtifactTick(d) ==
    /\ artifact.pc = "ready"
    /\ artifact.state \in {FillState.WAITING_POSITION, FillState.FILLING}
    /\ artifact.ticks < MaxTicks
    /\ artifact' = [artifact EXCEPT !.ticks = @ + 1, !.now = @ + d]
    /\ UNCHANGED controller_vars

InitArtifacts ==
    /\ state = IDLE
    /\ current_can_id = None
    /\ position_mm = None
    /\ current_level = 0
    /\ cycle_start_time = None
    /\ fill_start_time = None
    /\ db_conn = FALSE
    /\ pc = "ready"
    /\ now = 0
    /\ commands = <<>>
    /\ logged = <<>>
    /\ rows = <<>>
    /\ inbox = <<>>
    /\ cans = 0
    /\ ticks = 0
    /\ msg = NoMsg
    /\ config = [target_level |-> target_level, tolerance |-> tolerance,
                 position_timeout |-> position_timeout,
                 max_fill_time |-> max_fill_time]
    /\ last_command = NoStr
    /\ \E connected \in BOOLEAN : artifact = ArtifactStart(connected)
    /\ sensor = SensorStart

NextArtifacts ==
    \/ \E m \in ArtifactMessages : ArtifactReceive(m)
    \/ ArtifactWakeValve
    \/ \E d \in VariantTickSteps : ArtifactTick(d)

SpecArtifacts == InitArtifacts /\ [][NextArtifacts]_vars

-----------------------------------------------------------------------------
(* The sensor simulator and the controller composed over the bus *)

(* Everything but the simulator and the bus *)
line_vars ==
    <<state, current_can_id, position_mm, current_level, cycle_start_time,
      fill_start_time, db_conn, pc, now, commands, logged, rows, inbox, cans, ticks,
      msg, config, last_command, artifact>>

(* The payloads the simulator publishes *)
CanDetected(can_id) == Message(T_CAN, TRUE, can_id, None, FALSE, None)
PositionReport(can_id, p) ==
    Message(T_POS, TRUE, can_id, p, p <= position_limit /\ -p <= position_limit, None)
LevelReport(can_id, level) ==
    [Message(T_LEVEL, TRUE, can_id, None, FALSE, level)
        EXCEPT !.target = 330, !.tolerance = 5]

(* run, line 100, no can at the sensor: generate_can_arrival up to its      *)
(* time.sleep(0.02); the line feeds at most MaxCans cans                     *)
SensorArrival(p) ==
    /\ sensor.pc = "loop"
    /\ ~sensor.can_detected
    /\ sensor.can_counter < MaxCans
    /\ sensor' = [sensor EXCEPT
                    !.can_counter = @ + 1,
                    !.can_detected = TRUE,
                    !.position_mm = p,
                    !.to_controller = Append(@, CanDetected(sensor.can_counter + 1)),
                    !.pc = "position"]
    /\ UNCHANGED line_vars

(* generate_can_arrival after its sleep: the position report *)
SensorPosition ==
    /\ sensor.pc = "position"
    /\ sensor' = [sensor EXCEPT
                    !.to_controller =
                        Append(@, PositionReport(sensor.can_counter, sensor.position_mm)),
                    !.pc = "fill_if"]
    /\ UNCHANGED line_vars

(* run, line 100, with a can at the sensor: no arrival *)
SensorLoop ==
    /\ sensor.pc = "loop"
    /\ sensor.can_detected
    /\ sensor' = [sensor EXCEPT !.pc = "fill_if"]
    /\ UNCHANGED line_vars

(* run, line 103 *)
SensorFillIf ==
    /\ sensor.pc = "fill_if"
    /\ sensor' = [sensor EXCEPT
                    !.pc = IF sensor.filling_active THEN "fill_while" ELSE "release_if"]
    /\ UNCHANGED line_vars

(* simulate_filling, the test of its while *)
SensorFillWhile ==
    /\ sensor.pc = "fill_while"
    /\ sensor' = [sensor EXCEPT
                    !.pc = IF sensor.filling_active /\ sensor.current_level < full_level
                           THEN "fill_sleep" ELSE "release_if"]
    /\ UNCHANGED line_vars

(* simulate_filling, the body of its while after time.sleep(0.05) *)
SensorFillReport(rate) ==
    /\ sensor.pc = "fill_sleep"
    /\ sensor' = [sensor EXCEPT
                    !.current_level = @ + rate,
                    !.to_controller =
                        Append(@, LevelReport(sensor.can_counter,
                                              sensor.current_level + rate)),
                    !.pc = "fill_while"]
    /\ UNCHANGED line_vars

(* run, lines 106 to 112: the can is released, or not *)
SensorRelease ==
    /\ sensor.pc = "release_if"
    /\ sensor' = IF /\ sensor.can_detected
                    /\ ~sensor.filling_active
                    /\ sensor.current_level > 0
                 THEN [sensor EXCEPT !.can_detected = FALSE, !.current_level = 0,
                                     !.pc = "loop"]
                 ELSE [sensor EXCEPT !.pc = "loop"]
    /\ UNCHANGED line_vars

(* on_message of the simulator, on its network thread, up to line 32 or 36 *)
SensorOnMessage ==
    /\ sensor.bus_pc = "idle"
    /\ sensor.to_sensor # <<>>
    /\ LET command == Head(sensor.to_sensor) IN
       sensor' = IF command.action = "open"
                 THEN [sensor EXCEPT !.to_sensor = Tail(@), !.filling_active = TRUE,
                                     !.bus_pc = "opened"]
                 ELSE IF command.action = "close"
                 THEN [sensor EXCEPT !.to_sensor = Tail(@), !.filling_active = FALSE]
                 ELSE [sensor EXCEPT !.to_sensor = Tail(@)]
    /\ UNCHANGED line_vars

(* on_message of the simulator, line 33 *)
SensorOpened ==
    /\ sensor.bus_pc = "opened"
    /\ sensor' = [sensor EXCEPT !.current_level = 0, !.bus_pc = "idle"]
    /\ UNCHANGED line_vars

(* The controller's network thread is given the oldest message the simulator *)
(* published; what the handler publishes goes to the simulator.              *)
LineDeliver ==
    /\ thread_idle
    /\ sensor.to_controller # <<>>
    /\ Counted(Head(sensor.to_controller).topic)
    /\ on_message(Head(sensor.to_controller))
    /\ sensor' = [sensor EXCEPT !.to_controller = Tail(@),
                                !.to_sensor = @ \o commands']
    /\ UNCHANGED <<db_conn, now, inbox, ticks, artifact>>

(* WakeClosing on the line: the fault command of verify_completion is sent *)
LineWakeClosing ==
    /\ pc = "sleep_closing"
    /\ now' = now + close_delay
    /\ verify_completion(now')
    /\ published
    /\ sensor' = [sensor EXCEPT !.to_sensor = @ \o commands']
    /\ UNCHANGED <<db_conn, inbox, cans, ticks, msg, config, artifact>>

(* The threads of the line *)
SensorMain ==
    \/ \E p \in Positions : SensorArrival(p)
    \/ SensorPosition
    \/ SensorLoop
    \/ SensorFillIf
    \/ SensorFillWhile
    \/ \E rate \in FillRates : SensorFillReport(rate)
    \/ SensorRelease

SensorBus == SensorOnMessage \/ SensorOpened

ControllerThread == LineDeliver \/ LineWakeClosing \/ WakeComplete \/ WakeFault

NextLine ==
    \/ \E p \in Positions : SensorArrival(p)
    \/ SensorPosition
    \/ SensorLoop
    \/ SensorFillIf
    \/ SensorFillWhile
    \/ \E rate \in FillRates : SensorFillReport(rate)
    \/ SensorRelease
    \/ SensorOnMessage
    \/ SensorOpened
    \/ LineDeliver
    \/ LineWakeClosing
    \/ WakeComplete
    \/ WakeFault
    \/ \E d \in TickSteps : Tick(d)

SpecLine == Init /\ [][NextLine]_vars

(* Each of the three threads keeps running: a thread that can take a step   *)
(* takes one, since every time.sleep returns and the broker delivers every  *)
(* message.  Nothing forces the clock to jump.                              *)
FairSpecLine ==
    /\ Init
    /\ [][NextLine]_vars
    /\ WF_vars(SensorMain)
    /\ WF_vars(SensorBus)
    /\ WF_vars(ControllerThread)

-----------------------------------------------------------------------------
(* Steps and states the properties speak about *)

(* A step in which the network thread passes msg' to on_message: the thread *)
(* is idle before it and the clock does not move.                           *)
OnMessageStep == pc = "ready" /\ ticks' = ticks

(* The step publishes no command and passes no record to the sink *)
NothingProduced == commands' = <<>> /\ logged' = <<>> /\ rows' = <<>>

(* No ActiveCycle: the fields as __init__ and reset_for_next_can leave them *)
Cleared ==
    /\ current_can_id = None
    /\ position_mm = None
    /\ current_level = 0
    /\ cycle_start_time = None
    /\ fill_start_time = None

FaultDescriptions ==
    [position_timeout |-> "Position detection timeout",
     invalid_position |-> "Position out of tolerance",
     fill_timeout |-> "Fill timeout",
     out_of_tolerance |-> "Final level outside tolerance"]

(* Where the network thread is once the handler that moved to state s has *)
(* called log_event and goes on: in the delay of that state, or returned. *)
continues_at(s) ==
    IF s = FAULT THEN "sleep_fault"
    ELSE IF s = COMPLETE THEN "sleep_complete"
    ELSE "ready"

(* The edges of the transition table *)
Edges ==
    {<<IDLE, WAITING_POSITION>>, <<WAITING_POSITION, FILLING>>,
     <<WAITING_POSITION, FAULT>>, <<FILLING, CLOSING_VALVE>>, <<FILLING, FAULT>>,
     <<CLOSING_VALVE, COMPLETE>>, <<CLOSING_VALVE, FAULT>>, <<COMPLETE, IDLE>>,
     <<FAULT, IDLE>>}

(* The records that end a cycle *)
TerminalRecords == {"fill_complete", "fault_detected"}

(* The state each fault code is raised from *)
Origin ==
    [position_timeout |-> WAITING_POSITION, invalid_position |-> WAITING_POSITION,
     fill_timeout |-> FILLING, out_of_tolerance |-> CLOSING_VALVE]

(* The configuration as __init__ sets it *)
Configured ==
    [target_level |-> target_level, tolerance |-> tolerance,
     position_timeout |-> position_timeout, max_fill_time |-> max_fill_time]

(* The message just handled is delivered once more, no time having passed *)
Redelivered ==
    /\ on_message(msg)
    /\ UNCHANGED <<db_conn, now, inbox, cans, ticks>>

(* r is a fault_detected record of the can `can` with one of the four fault *)
(* codes and the description that belongs to it                             *)
IsFaultRecord(r, can) ==
    /\ r.event_type = "fault_detected"
    /\ r.can_id = can
    /\ r.fault_code \in DOMAIN FaultDescriptions
    /\ r.fault_description[1] = FaultDescriptions[r.fault_code]
    /\ r.system_state = FAULT

-----------------------------------------------------------------------------
(* C1: a CanDetected handled while the state is not IDLE changes no field of *)
(* the controller and produces no command and no record; handled in IDLE it  *)
(* sets current_can_id to its can_id, stamps cycle_start_time with the clock *)
(* and moves to WAITING_POSITION, leaving the other fields alone.            *)
C1_CanDetectedOnlyInIdle ==
    [][(OnMessageStep /\ msg'.ok /\ msg'.topic = T_CAN) =>
          IF state = IDLE
          THEN /\ state' = WAITING_POSITION
               /\ current_can_id' = msg'.can_id
               /\ cycle_start_time' = now
               /\ UNCHANGED <<position_mm, current_level, fill_start_time>>
               /\ commands' = <<>>
          ELSE UNCHANGED ctrl /\ NothingProduced]_vars

(* A CanDetected of another can was handled during FILLING and the cycle of *)
(* the first can goes on.                                                   *)
C1_Witness ==
    /\ pc = "ready"
    /\ state = FILLING
    /\ msg.ok /\ msg.topic = T_CAN
    /\ msg.can_id # current_can_id
    /\ current_can_id \in CanIds

(* C2: the controller is never in WAITING_POSITION later than position_timeout *)
(* after the CanDetected it accepted, whether or not a PositionReport arrives. *)
C2_PositionDeadline ==
    state = WAITING_POSITION => now - cycle_start_time <= position_timeout

(* C3: the controller is never in FILLING later than max_fill_time after it *)
(* entered FILLING, whether or not a LevelReport arrives.                   *)
C3_FillDeadline ==
    state = FILLING => now - fill_start_time <= max_fill_time

(* C4: the step that leaves CLOSING_VALVE goes to COMPLETE when              *)
(* target - tolerance <= current_level <= target + tolerance, and otherwise  *)
(* to FAULT with a fault record of code out_of_tolerance.                    *)
C4_ToleranceLaw ==
    [][(state = CLOSING_VALVE /\ inbox' = inbox) =>
          IF /\ target_level - tolerance <= current_level
             /\ current_level <= target_level + tolerance
          THEN state' = COMPLETE
          ELSE /\ state' = FAULT
               /\ Len(logged') = 1
               /\ logged'[1].fault_code = "out_of_tolerance"]_vars

(* A can filled to exactly target + tolerance is COMPLETE *)
C4_Witness ==
    state = COMPLETE /\ current_level = target_level + tolerance

(* C5: a PositionReport with valid = false handled in WAITING_POSITION always *)
(* leads to FAULT with fault code invalid_position.                           *)
C5_InvalidPositionFaults ==
    [][(OnMessageStep /\ msg'.ok /\ msg'.topic = T_POS /\ ~msg'.valid
        /\ state = WAITING_POSITION) =>
          /\ state' = FAULT
          /\ Len(logged') = 1
          /\ logged'[1].fault_code = "invalid_position"]_vars

(* C6, as claimed: every entry into FAULT publishes exactly one close command *)
(* with reason fault and the active can_id and commits exactly one            *)
(* fault_detected row, the can_id not yet reset.                              *)
C6_FaultEntryPersists ==
    [][(state' = FAULT /\ state # FAULT) =>
          /\ commands' = <<FaultCommand(current_can_id)>>
          /\ Len(rows') = 1
          /\ IsFaultRecord(rows'[1], current_can_id)
          /\ current_can_id' = current_can_id]_vars

(* C6, amended: every entry into FAULT publishes exactly one close command    *)
(* with reason fault and the active can_id and passes exactly one             *)
(* fault_detected record with the fault code and its description to           *)
(* log_event, before the cycle is reset; that record is committed once or,    *)
(* when the sink has no connection or the write fails, not at all.            *)
C6_FaultEntryLogs ==
    [][(state' = FAULT /\ state # FAULT) =>
          /\ commands' = <<[action |-> "close", can_id |-> current_can_id,
                            reason |-> "fault", final_level |-> None]>>
          /\ Len(logged') = 1
          /\ IsFaultRecord(logged'[1], current_can_id)
          /\ rows' \in {<<>>, logged'}
          /\ (~db_conn => rows' = <<>>)
          /\ current_can_id' = current_can_id
          /\ current_can_id # None]_vars

(* FAULT was entered, the close command is out and the row is committed *)
C6_Witness ==
    /\ state = FAULT
    /\ pc = "sleep_fault"
    /\ commands = <<FaultCommand(current_can_id)>>
    /\ Len(rows) = 1
    /\ rows = logged
    /\ rows[1].fault_code = "invalid_position"

(* C7: whenever the thread waits for the next message, either a cycle is    *)
(* running (WAITING_POSITION, FILLING) or the state is IDLE and nothing of  *)
(* the last cycle is left in the fields.                                    *)
C7_ResetIdempotence ==
    pc = "ready" =>
        \/ state \in {WAITING_POSITION, FILLING}
        \/ state = IDLE /\ Cleared

(* C8: in FAULT and in COMPLETE the reset is pending: a step back to IDLE *)
(* that needs no inbound message is enabled.                              *)
C8_FaultCompleteNotTerminal ==
    state \in {FAULT, COMPLETE} => ENABLED (WakeComplete \/ WakeFault)

(* C9: a PositionReport handled in a state other than WAITING_POSITION and a *)
(* LevelReport handled in a state other than FILLING change no field of the  *)
(* controller and produce no command and no record.                          *)
C9_UnexpectedEventIgnored ==
    [][(/\ OnMessageStep
        /\ msg'.ok
        /\ \/ msg'.topic = T_POS /\ state # WAITING_POSITION
           \/ msg'.topic = T_LEVEL /\ state # FILLING) =>
          UNCHANGED ctrl /\ NothingProduced]_vars

(* A PositionReport with valid = false was handled during FILLING, which goes on *)
C9_Witness ==
    /\ pc = "ready"
    /\ state = FILLING
    /\ msg.ok /\ msg.topic = T_POS /\ ~msg.valid
    /\ msg.position_mm # position_mm

(* C10: a PositionReport or LevelReport whose can_id differs from the can_id *)
(* of the active cycle changes no field of the controller and produces no    *)
(* command and no record.                                                    *)
C10_ForeignCanIgnored ==
    [][(/\ OnMessageStep
        /\ msg'.ok
        /\ msg'.topic \in {T_POS, T_LEVEL}
        /\ msg'.can_id # current_can_id) =>
          UNCHANGED ctrl /\ NothingProduced]_vars

-----------------------------------------------------------------------------
(* C11: a PositionReport with valid = true handled in WAITING_POSITION no    *)
(* later than position_timeout after cycle_start_time moves to FILLING,      *)
(* records position_mm, stamps fill_start_time and publishes exactly one     *)
(* open command with the active can_id; every entry into FILLING publishes   *)
(* that open command, and no other step publishes an open command.           *)
C11_ValveOpenOnFilling ==
    [][/\ (/\ OnMessageStep
           /\ msg'.ok /\ msg'.topic = T_POS /\ msg'.valid
           /\ state = WAITING_POSITION
           /\ now - cycle_start_time <= position_timeout) =>
             /\ state' = FILLING
             /\ position_mm' = msg'.position_mm
             /\ fill_start_time' = now
             /\ commands' = <<OpenCommand(current_can_id)>>
       /\ (state # FILLING /\ state' = FILLING) =>
             commands' = <<OpenCommand(current_can_id)>>
       /\ (/\ commands' # commands
           /\ \E i \in 1..Len(commands') : commands'[i].action = "open") =>
             state = WAITING_POSITION /\ state' = FILLING]_vars

(* C12: a LevelReport with level >= target - tolerance handled in FILLING    *)
(* within max_fill_time publishes a close command with that level as         *)
(* final_level and enters CLOSING_VALVE with the verification pending; a     *)
(* level inside the tolerance band then leads to COMPLETE with the level     *)
(* unchanged, exactly one fill_complete record of that level handed to the   *)
(* sink, and the reset to IDLE pending.                                      *)
C12_FillCompletes ==
    [][/\ (/\ OnMessageStep
           /\ msg'.ok /\ msg'.topic = T_LEVEL
           /\ state = FILLING
           /\ now - fill_start_time <= max_fill_time
           /\ msg'.level_ml >= target_level - tolerance) =>
             /\ state' = CLOSING_VALVE
             /\ current_level' = msg'.level_ml
             /\ commands' = <<CloseCommand(current_can_id, msg'.level_ml)>>
             /\ pc' = "sleep_closing"
       /\ (/\ state = CLOSING_VALVE /\ state' # CLOSING_VALVE
           /\ target_level - tolerance <= current_level
           /\ current_level <= target_level + tolerance) =>
             /\ state' = COMPLETE
             /\ current_level' = current_level
             /\ Len(logged') = 1
             /\ logged'[1].event_type = "fill_complete"
             /\ logged'[1].fill_level_ml = current_level
             /\ pc' = "sleep_complete"]_vars

(* C13: while the state stays FILLING, current_level never decreases. *)
C13_LevelNonDecreasing ==
    [][(state = FILLING /\ state' = FILLING) => current_level' >= current_level]_vars

(* C14: whatever the outcome of the write, a handler that has handed a      *)
(* record to log_event goes on as after a successful write: into the delay  *)
(* of COMPLETE or FAULT and then the reset, or to its return.               *)
C14_PersistenceFailureHarmless ==
    [][(state' # state /\ Len(logged') = 1) => pc' = continues_at(state')]_vars

(* C15: a payload that does not decode, on any topic and in every state,     *)
(* changes no field of the controller, produces no command and no record,    *)
(* and the network thread is ready for the next message.                     *)
C15_MalformedDropped ==
    [][(OnMessageStep /\ ~msg'.ok) =>
          UNCHANGED ctrl /\ NothingProduced /\ pc' = "ready"]_vars

(* An undecodable payload on sensor/level was handled during FILLING *)
C15_Witness ==
    /\ pc = "ready"
    /\ state = FILLING
    /\ ~msg.ok /\ msg.topic = T_LEVEL
    /\ current_level = 0

(* C16: handler executions do not interleave.  While a handler has not       *)
(* returned, no message is passed to on_message, a message that arrives only *)
(* joins the queue, and the fields change only when that handler goes on     *)
(* after its sleep; while no handler runs, the fields change only in a       *)
(* dispatch of one message.                                                  *)
C16_SingleWriter ==
    [][/\ pc # "ready" =>
             /\ msg' = msg
             /\ ctrl' # ctrl => (inbox' = inbox /\ pc' # pc /\ now' > now)
             /\ inbox' # inbox => (UNCHANGED ctrl /\ pc' = pc)
       /\ (pc = "ready" /\ ctrl' # ctrl) =>
             /\ now' = now /\ ticks' = ticks
             /\ msg'.ok
             /\ inbox' = inbox \/ inbox' = Tail(inbox)]_vars

(* A message arrived while handle_level_data sleeps before the verification *)
C16_Witness ==
    /\ pc = "sleep_closing"
    /\ state = CLOSING_VALVE
    /\ inbox # <<>>

(* C17: a CanDetected that arrived while the controller was in COMPLETE or  *)
(* FAULT changes no field of the controller and produces nothing when it is *)
(* dispatched: it starts no cycle.                                          *)
C17_CanDuringDelayDropped ==
    [][(/\ OnMessageStep
        /\ inbox # <<>>
        /\ inbox' = Tail(inbox)
        /\ Head(inbox).topic = T_CAN
        /\ Head(inbox).arrived_in \in {COMPLETE, FAULT}) =>
          UNCHANGED ctrl /\ NothingProduced]_vars

(* C18: every change of the state follows an edge of the transition table. *)
C18_TransitionTable ==
    [][state' # state => <<state, state'>> \in Edges]_vars

(* The verification of an overfilled can went from CLOSING_VALVE to FAULT *)
C18_Witness ==
    /\ state = FAULT
    /\ Len(logged) = 1
    /\ logged[1].fault_code = "out_of_tolerance"
    /\ current_level > target_level + tolerance

(* C19: a LevelReport changes a field only in FILLING, where the cycle has   *)
(* its position and its fill_start_time from a PositionReport applied no     *)
(* earlier than the CanDetected; a PositionReport changes a field only in    *)
(* WAITING_POSITION, where the cycle has its can_id and cycle_start_time     *)
(* from a CanDetected and no fill_start_time yet.                            *)
C19_EventOrder ==
    [][(OnMessageStep /\ msg'.ok /\ ctrl' # ctrl) =>
          /\ msg'.topic = T_LEVEL =>
                /\ state = FILLING
                /\ position_mm # None
                /\ fill_start_time # None
                /\ cycle_start_time # None
                /\ fill_start_time >= cycle_start_time
          /\ msg'.topic = T_POS =>
                /\ state = WAITING_POSITION
                /\ current_can_id # None
                /\ cycle_start_time # None
                /\ position_mm = None
                /\ fill_start_time = None]_vars

(* A LevelReport was applied to a cycle that has its position *)
C19_Witness ==
    /\ state = CLOSING_VALVE
    /\ msg.topic = T_LEVEL
    /\ current_level = msg.level_ml
    /\ position_mm \in Positions

(* C20: a step into COMPLETE hands exactly one fill_complete record to the   *)
(* sink and a step into FAULT exactly one fault_detected record; no other    *)
(* step hands over a record of either kind; from COMPLETE and FAULT the      *)
(* state changes only to IDLE, and no record is handed over before that.     *)
C20_OneTerminalRecord ==
    [][/\ (state # COMPLETE /\ state' = COMPLETE) =>
             Len(logged') = 1 /\ logged'[1].event_type = "fill_complete"
       /\ (state # FAULT /\ state' = FAULT) =>
             Len(logged') = 1 /\ logged'[1].event_type = "fault_detected"
       /\ (/\ logged' # logged
           /\ \E i \in 1..Len(logged') : logged'[i].event_type \in TerminalRecords) =>
             state \notin {COMPLETE, FAULT} /\ state' \in {COMPLETE, FAULT}
       /\ state \in {COMPLETE, FAULT} =>
             /\ state' \in {state, IDLE}
             /\ logged' = logged \/ logged' = <<>>]_vars

(* A cycle is COMPLETE with its one fill_complete record, the reset pending *)
C20_Witness ==
    /\ state = COMPLETE
    /\ pc = "sleep_complete"
    /\ Len(logged) = 1
    /\ logged[1].event_type = "fill_complete"
    /\ logged[1].can_id = current_can_id

-----------------------------------------------------------------------------
(* C21: the handling of one inbound event publishes at most one valve        *)
(* command and hands at most one record to the sink: no step publishes or    *)
(* logs more than one, and a handler that goes on after a sleep, having      *)
(* published its command, publishes no further one (and logs nothing after   *)
(* the delay of COMPLETE or FAULT).                                          *)
C21_OneCommandPerEvent ==
    [][/\ Len(commands') <= 1
       /\ Len(logged') <= 1
       /\ (pc # "ready" /\ pc' # pc) =>
             /\ commands' = <<>>
             /\ pc # "sleep_closing" => logged' = <<>>]_vars

(* C22: a step into FAULT hands over a record whose fault code belongs to   *)
(* the state left: position_timeout and invalid_position to                 *)
(* WAITING_POSITION, fill_timeout to FILLING, out_of_tolerance to           *)
(* CLOSING_VALVE; a fault record is handed over in no other step; and in    *)
(* FAULT nothing is handed over and the state changes only to IDLE, so a    *)
(* cycle faults once.                                                       *)
C22_FaultOrigins ==
    [][/\ (state # FAULT /\ state' = FAULT) =>
             /\ Len(logged') = 1
             /\ logged'[1].fault_code \in DOMAIN Origin
             /\ state = Origin[logged'[1].fault_code]
       /\ (/\ logged' # logged
           /\ \E i \in 1..Len(logged') : logged'[i].event_type = "fault_detected") =>
             state # FAULT /\ state' = FAULT
       /\ state = FAULT =>
             /\ state' \in {FAULT, IDLE}
             /\ logged' = logged \/ logged' = <<>>]_vars

(* A position_timeout was raised from WAITING_POSITION *)
C22_Witness ==
    /\ state = FAULT
    /\ pc = "sleep_fault"
    /\ Len(logged) = 1
    /\ logged[1].fault_code = "position_timeout"
    /\ fill_start_time = None

(* C23: from FILLING on (FILLING, CLOSING_VALVE, COMPLETE, FAULT) no step  *)
(* changes position_mm, except the reset to IDLE, which clears it.         *)
C23_PositionWrittenOnce ==
    [][(state \in {FILLING, CLOSING_VALVE, COMPLETE, FAULT}) =>
          (position_mm' = position_mm \/ (state' = IDLE /\ position_mm' = None))]_vars

(* A valid PositionReport with another position was handled during FILLING *)
C23_Witness ==
    /\ pc = "ready"
    /\ state = FILLING
    /\ msg.ok /\ msg.topic = T_POS /\ msg.valid
    /\ position_mm \in Positions
    /\ msg.position_mm # position_mm

(* C24: when the thread has handled a message and no time has passed since, *)
(* handling the same message once more changes no field of the controller   *)
(* and produces no command and no record.                                   *)
C24_DuplicateHarmless ==
    (pc = "ready" /\ msg # NoMsg) =>
        ~ENABLED (/\ Redelivered
                  /\ ~(UNCHANGED ctrl /\ NothingProduced /\ pc' = "ready"))

(* The CanDetected that started the cycle was delivered twice at once *)
C24_Witness ==
    /\ pc = "ready"
    /\ now = 0
    /\ cans = 2
    /\ state = WAITING_POSITION
    /\ msg.ok /\ msg.topic = T_CAN
    /\ msg.can_id = current_can_id

(* C25: target_level, tolerance, position_timeout and max_fill_time keep the *)
(* values of __init__ in every step, and FILLING is left for CLOSING_VALVE   *)
(* exactly by a level of at least the configured target - tolerance in time, *)
(* whatever target and tolerance the LevelReport carries.                    *)
C25_ConfigurationImmutable ==
    [][/\ config = Configured
       /\ config' = config
       /\ (OnMessageStep /\ msg'.ok /\ msg'.topic = T_LEVEL /\ state = FILLING
           /\ now - fill_start_time <= max_fill_time) =>
             (state' = CLOSING_VALVE <=> msg'.level_ml >= target_level - tolerance)]_vars

(* A LevelReport of 324 ml that carries target 300 and tolerance 50 was *)
(* handled and the fill goes on                                         *)
C25_Witness ==
    /\ pc = "ready"
    /\ state = FILLING
    /\ msg.ok /\ msg.topic = T_LEVEL
    /\ msg.target = 300 /\ msg.tolerance = 50
    /\ current_level = 324

(* C26: in the variant, handling a pressure report changes no field of the  *)
(* controller in any state and publishes and logs nothing; the variant      *)
(* comes to COMPLETE only from CLOSING_VALVE, which it enters only from     *)
(* FILLING with a fill level of at least TARGET_VOLUME - VOLUME_TOLERANCE.  *)
C26_SealNeverGates ==
    [][/\ (/\ artifact.pc = "ready"
           /\ artifact'.ticks = artifact.ticks
           /\ artifact'.msg.topic = A_PRESSURE) =>
             /\ artifact'.state = artifact.state
             /\ artifact'.current_can_id = artifact.current_can_id
             /\ artifact'.fill_level = artifact.fill_level
             /\ artifact'.cycle_start_time = artifact.cycle_start_time
             /\ artifact'.position_valid = artifact.position_valid
             /\ artifact'.published = <<>>
             /\ artifact'.logged = <<>>
       /\ (artifact.state # FillState.COMPLETE
           /\ artifact'.state = FillState.COMPLETE) =>
             /\ artifact.state = FillState.CLOSING_VALVE
             /\ artifact'.fill_level = artifact.fill_level
       /\ (artifact.state # FillState.CLOSING_VALVE
           /\ artifact'.state = FillState.CLOSING_VALVE) =>
             /\ artifact.state = FillState.FILLING
             /\ artifact'.fill_level >= TARGET_VOLUME - VOLUME_TOLERANCE]_vars

(* A pressure report with a failed seal was handled in COMPLETE, which stays *)
C26_Witness ==
    /\ artifact.state = FillState.COMPLETE
    /\ artifact.msg.topic = A_PRESSURE
    /\ ~artifact.msg.seal_integrity
    /\ artifact.current_can_id \in CanIds

(* C27: a PositionReport handled in WAITING_POSITION later than              *)
(* position_timeout after cycle_start_time leads to FAULT with fault code    *)
(* position_timeout and the fault close command, whatever its valid flag: it *)
(* does not enter FILLING and publishes no open command.                     *)
C27_PositionDeadlineFirst ==
    [][(/\ OnMessageStep
        /\ msg'.ok /\ msg'.topic = T_POS
        /\ state = WAITING_POSITION
        /\ now - cycle_start_time > position_timeout) =>
          /\ state' = FAULT
          /\ Len(logged') = 1
          /\ logged'[1].fault_code = "position_timeout"
          /\ commands' = <<FaultCommand(current_can_id)>>
          /\ fill_start_time' = None]_vars

(* A late PositionReport with valid = true ended in FAULT/position_timeout *)
C27_Witness ==
    /\ state = FAULT
    /\ msg.ok /\ msg.topic = T_POS /\ msg.valid
    /\ Len(logged) = 1
    /\ logged[1].fault_code = "position_timeout"

(* C28: a LevelReport handled in FILLING leads to FAULT with fault code      *)
(* fill_timeout and the fault close command exactly when the time since      *)
(* fill_start_time exceeds max_fill_time, whatever its level; otherwise it   *)
(* raises no fault.  In FAULT no command and no record follows.              *)
C28_FillDeadlineFirst ==
    [][/\ (OnMessageStep /\ msg'.ok /\ msg'.topic = T_LEVEL /\ state = FILLING) =>
             IF now - fill_start_time > max_fill_time
             THEN /\ state' = FAULT
                  /\ Len(logged') = 1
                  /\ logged'[1].fault_code = "fill_timeout"
                  /\ commands' = <<FaultCommand(current_can_id)>>
             ELSE /\ state' \in {FILLING, CLOSING_VALVE}
                  /\ logged' = <<>>
       /\ state = FAULT =>
             /\ commands' = commands \/ commands' = <<>>
             /\ logged' = logged \/ logged' = <<>>]_vars

(* A late LevelReport of a level inside the band ended in FAULT/fill_timeout *)
C28_Witness ==
    /\ state = FAULT
    /\ msg.ok /\ msg.topic = T_LEVEL
    /\ msg.level_ml = target_level - tolerance
    /\ Len(logged) = 1
    /\ logged[1].fault_code = "fill_timeout"

(* C29: a payload that decodes but lacks can_id, position_mm or level_ml   *)
(* (or carries null for it) changes no field of the controller and         *)
(* produces no command and no record, in every state.                      *)
C29_UntypedAbsorbed ==
    [][(OnMessageStep /\ msg' \in UntypedMessages) =>
          UNCHANGED ctrl /\ NothingProduced]_vars

(* C30: whenever the last valve command published is open the state is      *)
(* FILLING, and whenever the state is IDLE the last valve command, if there  *)
(* is one, is close.                                                         *)
C30_OpenOnlyWhileFilling ==
    /\ last_command = "open" => state = FILLING
    /\ state = IDLE => last_command \in {NoStr, "close"}

(* Back in IDLE after a cycle that opened the valve and closed it *)
C30_Witness ==
    /\ state = IDLE
    /\ pc = "ready"
    /\ last_command = "close"
    /\ Len(rows) = 0
    /\ cans = 1
    /\ now = close_delay + settle_delay

(* C31: the level is fixed while the controller is in CLOSING_VALVE, which   *)
(* it enters only with a level of at least target - tolerance; a step that   *)
(* records out_of_tolerance leaves CLOSING_VALVE with a level above          *)
(* target + tolerance; and a cycle that leaves FILLING with a level below    *)
(* target - tolerance leaves it to FAULT with fill_timeout.                  *)
C31_OutOfToleranceIsOverfill ==
    [][/\ state = CLOSING_VALVE =>
            /\ current_level >= target_level - tolerance
            /\ current_level' = current_level
       /\ state' = CLOSING_VALVE /\ state # CLOSING_VALVE =>
            /\ state = FILLING
            /\ current_level' >= target_level - tolerance
       /\ \A i \in 1..Len(logged') :
            logged' # logged /\ logged'[i].fault_code = "out_of_tolerance" =>
               /\ state = CLOSING_VALVE
               /\ state' = FAULT
               /\ current_level > target_level + tolerance
               /\ logged'[i].fill_level_ml = current_level
       /\ state = FILLING /\ state' # FILLING
             /\ current_level' < target_level - tolerance =>
               /\ state' = FAULT
               /\ Len(logged') = 1
               /\ logged'[1].fault_code = "fill_timeout"]_vars

(* An underfilled can has ended in fill_timeout *)
C31_Witness ==
    /\ state = FAULT
    /\ pc = "sleep_fault"
    /\ Len(logged) = 1
    /\ logged[1].fault_code = "fill_timeout"
    /\ current_level > 0
    /\ current_level < target_level - tolerance
    /\ commands = <<FaultCommand(current_can_id)>>

(* C35: the variant never ends the handling of one fill-level report with    *)
(* both outcomes: what one call of handle_fill_level publishes and logs does *)
(* not hold the fill-complete status together with the emergency close or    *)
(* the FAIL/TIMEOUT record of handle_timeout.                                *)
C35_OneOutcome ==
    LET completed == \E i \in 1..Len(artifact.published) :
                        artifact.published[i].topic = "status/fill_complete"
        timed_out == \/ \E i \in 1..Len(artifact.published) :
                           artifact.published[i].emergency
                     \/ \E i \in 1..Len(artifact.logged) :
                           artifact.logged[i].reject_reason = "TIMEOUT"
    IN  artifact.msg.topic = A_FILL_LEVEL => ~(completed /\ timed_out)

(* C32: the records of a cycle come in transition order.  Every transition   *)
(* that has a record hands it to log_event in the step that makes it         *)
(* (can_detected on IDLE -> WAITING_POSITION, fill_start on                  *)
(* WAITING_POSITION -> FILLING, fill_complete on CLOSING_VALVE -> COMPLETE,  *)
(* fault_detected on the entry to FAULT), no record is handed over in any    *)
(* other step, so that a fill_complete follows the fill_start of its cycle   *)
(* and a fill_start the can_detected; nothing follows a fault_detected       *)
(* before the reset; every record carries current_can_id; and what is        *)
(* committed is what was handed over, or nothing.                            *)
C32_RecordsInOrder ==
    [][LET RecordOf(from, to) ==
               IF from = IDLE /\ to = WAITING_POSITION THEN "can_detected"
               ELSE IF from = WAITING_POSITION /\ to = FILLING THEN "fill_start"
               ELSE IF from = CLOSING_VALVE /\ to = COMPLETE THEN "fill_complete"
               ELSE IF from # FAULT /\ to = FAULT THEN "fault_detected"
               ELSE NoStr
       IN
       /\ state' # state /\ RecordOf(state, state') # NoStr =>
            /\ Len(logged') = 1
            /\ logged'[1].event_type = RecordOf(state, state')
       /\ logged' # logged /\ logged' # <<>> =>
            /\ Len(logged') = 1
            /\ logged'[1].event_type = RecordOf(state, state')
            /\ logged'[1].can_id = current_can_id'
       /\ state = FAULT => logged' \in {<<>>, logged}
       /\ rows' \in {<<>>, logged'}]_vars

(* C33: on the line, every detected can is eventually released by the       *)
(* simulator, and after every can but the last the line feeds, a next can   *)
(* arrival is eventually generated.                                         *)
C33_LineKeepsRunning ==
    /\ sensor.can_detected ~> ~sensor.can_detected
    /\ \A k \in 1..(MaxCans - 1) :
          (sensor.can_counter = k) ~> (sensor.can_counter = k + 1)

(* C34: the simulator publishes a level report only while filling_active is *)
(* set: the step of simulate_filling that publishes one is not taken once   *)
(* on_message has processed the close command.                              *)
C34_NoReportAfterClose ==
    [][(/\ Len(sensor'.to_controller) = Len(sensor.to_controller) + 1
        /\ sensor'.to_controller[Len(sensor'.to_controller)].topic = T_LEVEL)
       => sensor.filling_active]_vars

====
